---- MODULE Spec2Model ----
(***************************************************************************)
(* Model of the query partitioner and the result stream of                 *)
(* github-downloader (src/src/github.ts, second half: RepoSearchQuery,     *)
(* findRepoCount, partitionRepoSearchQueryHelper, searchRepos generator).  *)
(*                                                                         *)
(* A Date is its millisecond time value (an integer).  The remote search   *)
(* index is a fixed population of repositories, given by how many of them  *)
(* were created at each instant.  The qualifier created:a..b that the      *)
(* serializer emits is GitHub's range qualifier, which matches a <= t <= b *)
(* (a..* is >= a, *..b is <= b).                                           *)
(***************************************************************************)
EXTENDS Integers, Sequences, FiniteSets, TLC

\* ---------------------------------------------------------------- bounds
\* Latest instant of the modelled time axis; the axis starts one
\* millisecond before the epoch so that negative time values occur.
MaxTime == 2

\* Deepest stack of nested partitionRepoSearchQueryHelper calls explored.
MaxDepth == 5

\* Latest instant of the wider time axis, on which a range can be halved
\* three times.
WideMaxTime == 8

\* src/src/const.ts:73
GITHUB_SEARCH_MAX_PAGE_SIZE == 100

Times == -1 .. MaxTime

\* Numbers of repositories created at one instant: none, one, half a page
\* (two such instants fill a page exactly), and one more than a page.
Densities ==
  {0, 1, GITHUB_SEARCH_MAX_PAGE_SIZE \div 2, GITHUB_SEARCH_MAX_PAGE_SIZE + 1}

\* An optional Date: <<>> is undefined, <<t>> is the Date with time value t.
Undefined == <<>>
DateOf(t) == <<t>>
OptDates == {Undefined} \cup {DateOf(t) : t \in Times}
IsSet(d) == d # Undefined
TimeOf(d) == d[1]

VARIABLES
  index,          \* the remote index: instant -> number of repositories
  query,          \* the RepoSearchQuery passed to searchRepos
  gen,            \* state of the async generator object
  outcome,        \* how the generator completed
  inflight,       \* the remote call awaiting its response
  stack,          \* frames of partitionRepoSearchQueryHelper, innermost last
  partitions,     \* const partitions of searchRepos
  totalRepoCount, \* const totalRepoCount of searchRepos
  countSoFar,     \* let countSoFar of searchRepos
  position,       \* how many partitions the for-of loop has taken
  yielded,        \* the batches handed to the consumer, in order
  countLog,       \* the count requests issued, in order
  fetchLog,       \* the fetch requests issued, in order
  estimates,      \* the estimates of requests and minutes logged, in order
  serArg,         \* the argument of a call of the query serializer
  serResult,      \* what that call returned or threw
  gitPc,          \* where a call of fetchRepoCode stands
  cloneDir,       \* the clone directory of that call's repository
  attempt,        \* the attempt of async-retry that is running
  gitLog,         \* the rm, git clone and find commands issued, in order
  mainPc,         \* where main stands
  dryRun,         \* --dry-run
  maxRepoCount,   \* --max-repo-count: <<>> when not given, or <<n>>
  reposDir,       \* whether the directory --repos-dir exists
  noOwner,        \* the instants whose repositories have no owner
  handled,        \* how many batches main is done with
  cloningLog,     \* per batch, the repositories logged as "Cloning <name>"
  fetchRepoCodeCalls, \* per batch, the repositories fetchRepoCode was called for
  cloneDirs,      \* the clone directories under reposDir
  sortPc,         \* where a call of the sort-based searchRepos stands
  population,     \* how many repositories of the language the remote holds
  sortOrder,      \* the order argument
  maxRepoCountArg, \* the maxRepoCount argument
  call,           \* let call of the sort-based searchRepos
  page,           \* let page of searchReposHelper
  drift,          \* by how many ranks the remote ranking has moved on
  sortFieldMaxValue, \* let sortFieldMaxValue, 0 when undefined
  itemsFromAllPages, \* const itemsFromAllPages of searchReposHelper
  itemsFromAllCalls  \* const itemsFromAllCalls of searchRepos

\* The serializer on its own: no call of it is pending in the stream model.
svars == <<serArg, serResult>>
NoCall == [kind |-> "none"]

NoSerializer == serArg = NoCall /\ serResult = NoCall

\* fetchRepoCode on its own: no call of it is pending elsewhere.
gvars == <<gitPc, cloneDir, attempt, gitLog>>

NoGit ==
  /\ gitPc = "none"
  /\ cloneDir = "absent"
  /\ attempt = 0
  /\ gitLog = <<>>

\* main, the consumer of the stream: absent when the stream is on its own.
mvars == <<mainPc, dryRun, maxRepoCount, reposDir, noOwner, handled,
           cloningLog, fetchRepoCodeCalls, cloneDirs>>

NoMain ==
  /\ mainPc = "none"
  /\ dryRun = FALSE
  /\ maxRepoCount = <<>>
  /\ reposDir = FALSE
  /\ noOwner = {}
  /\ handled = 0
  /\ cloningLog = <<>>
  /\ fetchRepoCodeCalls = <<>>
  /\ cloneDirs = <<>>

\* The sort-based searchRepos on its own.
sortvars == <<sortPc, population, sortOrder, maxRepoCountArg, call, page, drift,
              sortFieldMaxValue, itemsFromAllPages, itemsFromAllCalls>>

NoSort ==
  /\ sortPc = "none"
  /\ population = 0
  /\ sortOrder = "desc"
  /\ maxRepoCountArg = 0
  /\ call = 0
  /\ page = 0
  /\ drift = 0
  /\ sortFieldMaxValue = 0
  /\ itemsFromAllPages = <<>>
  /\ itemsFromAllCalls = <<>>

\* The variables of the components other than the stream.
ovars == <<svars, gvars, mvars, sortvars>>

OthersIdle == NoSerializer /\ NoGit /\ NoMain /\ NoSort

vars == <<index, query, gen, outcome, inflight, stack, partitions,
          totalRepoCount, countSoFar, position, yielded, countLog, fetchLog,
          estimates, ovars>>

\* ------------------------------------------------------------ the oracle
RECURSIVE SumOver(_, _)
SumOver(f, S) ==
  IF S = {} THEN 0
  ELSE LET t == CHOOSE x \in S : TRUE IN f[t] + SumOver(f, S \ {t})

\* created:min..max with either side "*" when undefined.
Matches(created, t) ==
  /\ (IsSet(created.minValue) => TimeOf(created.minValue) <= t)
  /\ (IsSet(created.maxValue) => t <= TimeOf(created.maxValue))

MatchingTimes(created) == {t \in DOMAIN index : Matches(created, t)}

\* res.data.total_count of the search for q.
findRepoCount(q) == SumOver(index, MatchingTimes(q.created))

RECURSIVE TakePage(_, _, _)
\* The first per_page matches, earliest first, as instant -> number.
TakePage(items, S, per_page) ==
  IF S = {} THEN items
  ELSE LET t == CHOOSE x \in S : \A y \in S : x <= y
           n == IF index[t] <= per_page THEN index[t] ELSE per_page
       IN TakePage([items EXCEPT ![t] = n], S \ {t}, per_page - n)

\* response.data.items of the one-page search of a partition.
searchReposInPartition(partition) ==
  TakePage([t \in DOMAIN index |-> 0],
           MatchingTimes([minValue |-> partition.startDate,
                          maxValue |-> partition.endDate]),
           partition.count)

\* ------------------------------------------------------- the partitioner
\* Mutant of the range check: only the start date is required.
CreatedRangeValid_MinOnly(q) == IsSet(q.created.minValue)

CreatedRangeValid(q) ==
  IsSet(q.created.minValue) /\ IsSet(q.created.maxValue)

\* Mutants of the leaf test: one too many admitted, the cap itself refused.
FitsInPartition_Loose(count, maxRepoCountPerPartition) ==
  count <= maxRepoCountPerPartition + 1

FitsInPartition_Strict(count, maxRepoCountPerPartition) ==
  count < maxRepoCountPerPartition

FitsInPartition(count, maxRepoCountPerPartition) ==
  count <= maxRepoCountPerPartition

LeafPartition(count, startDate, endDate) ==
  [count |-> count, startDate |-> startDate, endDate |-> endDate]

\* new Date(x) keeps the integer part of x, rounding toward zero.
TimeClip(twice) ==
  IF twice >= 0 THEN twice \div 2 ELSE -((-twice) \div 2)

\* Mutant of the midpoint: a quarter of the way instead of half.
MidDate_Quarter(startDate, endDate) ==
  DateOf(TimeOf(startDate) + (TimeOf(endDate) - TimeOf(startDate)) \div 4)

MidDate(startDate, endDate) ==
  DateOf(TimeClip(2 * TimeOf(startDate) + (TimeOf(endDate) - TimeOf(startDate))))

\* Mutant of the left half: a new query that carries the created range only.
LeftQuery_CreatedOnly(q, midDate) ==
  [created |-> [q.created EXCEPT !.maxValue = midDate]]

\* { ...query, created: { ...query.created, maxValue: midDate } }
LeftQuery(q, midDate) ==
  [q EXCEPT !.created = [q.created EXCEPT !.maxValue = midDate]]

\* Mutant of the right half: it starts one millisecond after the midpoint.
RightQuery_NextInstant(q, midDate) ==
  [q EXCEPT !.created = [q.created EXCEPT
                           !.minValue = DateOf(TimeOf(midDate) + 1)]]

RightQuery(q, midDate) ==
  [q EXCEPT !.created = [q.created EXCEPT !.minValue = midDate]]

\* Mutant of the concatenation: right branch first.
ConcatPartitions_RightFirst(leftPartition, rightPartition) ==
  rightPartition \o leftPartition

ConcatPartitions(leftPartition, rightPartition) ==
  leftPartition \o rightPartition

\* A frame of partitionRepoSearchQueryHelper suspended at an await:
\* at "count" it awaits findRepoCount, at "left"/"right" the recursive call.
Frame(q, rootCall) ==
  [query |-> q, rootCall |-> rootCall, at |-> "count", leftPartition |-> <<>>]

Top(s) == s[Len(s)]
Pop(s) == SubSeq(s, 1, Len(s) - 1)
SetTop(s, f) == [s EXCEPT ![Len(s)] = f]

RECURSIVE ReturnTo(_, _)
\* The callee returned `result` to the innermost frame of s: run the callers
\* until one of them awaits a remote call again or the root call returns.
ReturnTo(s, result) ==
  IF s = <<>> THEN [stack |-> <<>>, returned |-> TRUE, value |-> result]
  ELSE LET f == Top(s)
           midDate == MidDate(f.query.created.minValue, f.query.created.maxValue)
       IN IF f.at = "left"
          THEN [stack |-> Append(SetTop(s, [f EXCEPT !.at = "right",
                                                     !.leftPartition = result]),
                                 Frame(RightQuery(f.query, midDate), FALSE)),
                returned |-> FALSE, value |-> <<>>]
          ELSE ReturnTo(Pop(s), ConcatPartitions(f.leftPartition, result))

\* Mutant of the bisection: both recursive calls started together.
AfterCount_Parallel(s, count) ==
  LET f == Top(s)
      startDate == f.query.created.minValue
      endDate == f.query.created.maxValue
      midDate == MidDate(startDate, endDate)
  IN IF FitsInPartition(count, GITHUB_SEARCH_MAX_PAGE_SIZE)
     THEN ReturnTo(Pop(s), <<LeafPartition(count, startDate, endDate)>>)
     ELSE [stack |-> SetTop(s, [f EXCEPT !.at = "left"])
                       \o <<Frame(LeftQuery(f.query, midDate), FALSE),
                            Frame(RightQuery(f.query, midDate), FALSE)>>,
           returned |-> FALSE, value |-> <<>>]

\* The helper's code after `await findRepoCount(query)` gave count.
AfterCount(s, count) ==
  LET f == Top(s)
      startDate == f.query.created.minValue
      endDate == f.query.created.maxValue
  IN IF FitsInPartition(count, GITHUB_SEARCH_MAX_PAGE_SIZE)
     THEN ReturnTo(Pop(s), <<LeafPartition(count, startDate, endDate)>>)
     ELSE [stack |-> Append(SetTop(s, [f EXCEPT !.at = "left"]),
                            Frame(LeftQuery(f.query, MidDate(startDate, endDate)),
                                  FALSE)),
           returned |-> FALSE, value |-> <<>>]

\* -------------------------------------------------------- the estimate
RECURSIVE CeilLog2Ratio(_, _, _)
\* Math.ceil(Math.log2(count / cap)) for count > cap: the least k >= from
\* with count <= cap * 2^k.
CeilLog2Ratio(count, cap, from) ==
  IF count <= cap * 2 ^ from THEN from ELSE CeilLog2Ratio(count, cap, from + 1)

numBisections(count, maxRepoCountPerPartition) ==
  CeilLog2Ratio(count, maxRepoCountPerPartition, 1)

numRequests(count, maxRepoCountPerPartition) ==
  2 ^ (numBisections(count, maxRepoCountPerPartition) + 1) + 1

\* Math.ceil(numRequests / 30)
totalMinutes(count, maxRepoCountPerPartition) ==
  (numRequests(count, maxRepoCountPerPartition) + 29) \div 30

\* Mutant of the estimate: every call above the cap logs one.
LogEstimate_EveryCall(f, count) ==
  IF ~FitsInPartition(count, GITHUB_SEARCH_MAX_PAGE_SIZE)
  THEN <<[count |-> count,
          numRequests |-> numRequests(count, GITHUB_SEARCH_MAX_PAGE_SIZE),
          totalMinutes |-> totalMinutes(count, GITHUB_SEARCH_MAX_PAGE_SIZE)]>>
  ELSE <<>>

\* What the frame f logs once its count is known: the root call of a query
\* above the cap logs its estimate, every other call logs none.
LogEstimate(f, count) ==
  IF f.rootCall /\ ~FitsInPartition(count, GITHUB_SEARCH_MAX_PAGE_SIZE)
  THEN <<[count |-> count,
          numRequests |-> numRequests(count, GITHUB_SEARCH_MAX_PAGE_SIZE),
          totalMinutes |-> totalMinutes(count, GITHUB_SEARCH_MAX_PAGE_SIZE)]>>
  ELSE <<>>

\* ------------------------------------------------------------ the stream
RECURSIVE SumCounts_LastTwice(_)
\* Mutant of the total: the last count is added twice.
SumCounts_LastTwice(ps) ==
  IF ps = <<>> THEN 0
  ELSE IF Len(ps) = 1 THEN 2 * ps[1].count
  ELSE ps[1].count + SumCounts_LastTwice(Tail(ps))

RECURSIVE SumCounts(_)
\* partitions.map((p) => p.count).reduce((a, b) => a + b, 0)
SumCounts(ps) ==
  IF ps = <<>> THEN 0 ELSE ps[1].count + SumCounts(Tail(ps))

\* Mutant of the running count: assigned instead of accumulated.
NextCountSoFar_Assign(soFar, partition) == partition.count

NextCountSoFar(soFar, partition) == soFar + partition.count

\* countSoFar / totalRepoCount as an IEEE quotient of two integers.
Quotient(num, den) ==
  IF den # 0 THEN [kind |-> "number", num |-> num, den |-> den]
  ELSE IF num = 0 THEN [kind |-> "NaN", num |-> 0, den |-> 0]
  ELSE [kind |-> "Infinity", num |-> num, den |-> 0]

IsOne(x) == x.kind = "number" /\ x.num = x.den

\* The keywords of a query object other than created.
OtherKeywords(q) == [key \in DOMAIN q \ {"created"} |-> q[key]]

\* Mutant of the page request: a full page is asked for whatever the count.
FetchRequest_FullPage(partition) ==
  [minValue |-> partition.startDate, maxValue |-> partition.endDate,
   others |-> OtherKeywords(query),
   per_page |-> GITHUB_SEARCH_MAX_PAGE_SIZE]

\* The request of searchReposInPartition: the query passed to searchRepos
\* with the partition's dates as its created range, and the partition's
\* count as the page size.
FetchRequest(partition) ==
  [minValue |-> partition.startDate, maxValue |-> partition.endDate,
   others |-> OtherKeywords(query),
   per_page |-> partition.count]

\* The request of findRepoCount: the query it is given, as its created range
\* and its other keywords, and one result per page.
CountRequest(q) ==
  [minValue |-> q.created.minValue, maxValue |-> q.created.maxValue,
   others |-> OtherKeywords(q),
   per_page |-> 1]

Batch(partition, total, soFar) ==
  [totalCount |-> total,
   countInPartition |-> partition.count,
   countProgress |-> soFar,
   percentageProgress |-> Quotient(soFar, total),
   startDate |-> partition.startDate,
   endDate |-> partition.endDate,
   repos |-> searchReposInPartition(partition)]

\* ------------------------------------------------------------------ Init
\* Mutant of the construction: the body runs to its first await at once, as
\* the body of a plain async function does.
Init_Eager ==
  /\ index \in [Times -> Densities]
  /\ query \in [created : [minValue : OptDates, maxValue : OptDates]]
  /\ gen = "suspendedStart"
  /\ outcome = "none"
  /\ inflight = IF CreatedRangeValid(query) THEN "count" ELSE "none"
  /\ stack = IF CreatedRangeValid(query) THEN <<Frame(query, TRUE)>> ELSE <<>>
  /\ partitions = <<>>
  /\ totalRepoCount = 0
  /\ countSoFar = 0
  /\ position = 0
  /\ yielded = <<>>
  /\ countLog = IF CreatedRangeValid(query) THEN <<CountRequest(query)>> ELSE <<>>
  /\ fetchLog = <<>>
  /\ estimates = <<>>
  /\ OthersIdle

\* The generator object right after searchRepos(query): an async generator
\* runs none of its body before the first next().
Init ==
  /\ index \in [Times -> Densities]
  /\ query \in [created : [minValue : OptDates, maxValue : OptDates]]
  /\ gen = "suspendedStart"
  /\ outcome = "none"
  /\ inflight = "none"
  /\ stack = <<>>
  /\ partitions = <<>>
  /\ totalRepoCount = 0
  /\ countSoFar = 0
  /\ position = 0
  /\ yielded = <<>>
  /\ countLog = <<>>
  /\ fetchLog = <<>>
  /\ estimates = <<>>
  /\ OthersIdle

\* --------------------------------------------------------------- actions
\* Mutant of the loop: the partition is counted again before its page is
\* fetched.
EnterLoop_Recount(ps, total, soFar, pos) ==
  IF pos < Len(ps)
  THEN /\ position' = pos + 1
       /\ countSoFar' = NextCountSoFar(soFar, ps[pos + 1])
       /\ fetchLog' = Append(fetchLog, FetchRequest(ps[pos + 1]))
       /\ countLog' = Append(countLog, [minValue |-> ps[pos + 1].startDate,
                                        maxValue |-> ps[pos + 1].endDate,
                                        others |-> OtherKeywords(query),
                                        per_page |-> 1])
       /\ inflight' = "fetch"
       /\ gen' = "executing"
       /\ outcome' = outcome
  ELSE /\ position' = pos
       /\ countSoFar' = soFar
       /\ fetchLog' = fetchLog
       /\ countLog' = countLog
       /\ inflight' = "none"
       /\ gen' = "completed"
       /\ outcome' = "done"

\* The loop body up to the await of the next partition's page, or the end
\* of the generator when the loop is over.
EnterLoop(ps, total, soFar, pos) ==
  IF pos < Len(ps)
  THEN /\ position' = pos + 1
       /\ countSoFar' = NextCountSoFar(soFar, ps[pos + 1])
       /\ fetchLog' = Append(fetchLog, FetchRequest(ps[pos + 1]))
       /\ countLog' = countLog
       /\ inflight' = "fetch"
       /\ gen' = "executing"
       /\ outcome' = outcome
  ELSE /\ position' = pos
       /\ countSoFar' = soFar
       /\ fetchLog' = fetchLog
       /\ countLog' = countLog
       /\ inflight' = "none"
       /\ gen' = "completed"
       /\ outcome' = "done"

\* Mutant of the start: the root is counted twice, once for the total and
\* once by the helper.
NextStart_CountTwice ==
  /\ gen = "suspendedStart"
  /\ IF CreatedRangeValid(query)
     THEN /\ stack' = <<Frame(query, TRUE)>>
          /\ countLog' = countLog \o <<CountRequest(query), CountRequest(query)>>
          /\ inflight' = "count"
          /\ gen' = "executing"
          /\ outcome' = outcome
     ELSE /\ gen' = "completed"
          /\ outcome' = "configError"
          /\ UNCHANGED <<stack, countLog, inflight>>
  /\ UNCHANGED <<ovars, estimates, index, query, partitions, totalRepoCount,
                 countSoFar, position, yielded, fetchLog>>

\* First next(): the body starts; the helper checks the created range and,
\* if it is bounded, issues the root count request.
NextStart ==
  /\ gen = "suspendedStart"
  /\ IF CreatedRangeValid(query)
     THEN /\ stack' = <<Frame(query, TRUE)>>
          /\ countLog' = Append(countLog, CountRequest(query))
          /\ inflight' = "count"
          /\ gen' = "executing"
          /\ outcome' = outcome
     ELSE /\ gen' = "completed"
          /\ outcome' = "configError"
          /\ UNCHANGED <<stack, countLog, inflight>>
  /\ UNCHANGED <<ovars, estimates, index, query, partitions, totalRepoCount, countSoFar,
                 position, yielded, fetchLog>>

\* A count request answers with total_count = count.
CountResponseWith(count) ==
  /\ inflight = "count"
  /\ estimates' = estimates \o LogEstimate(Top(stack), count)
  /\ LET r == AfterCount(stack, count)
     IN IF r.returned
        THEN /\ stack' = <<>>
             /\ partitions' = r.value
             /\ totalRepoCount' = SumCounts(r.value)
             /\ EnterLoop(r.value, SumCounts(r.value), 0, 0)
        ELSE /\ Len(r.stack) <= MaxDepth
             /\ stack' = r.stack
             /\ countLog' = Append(countLog, CountRequest(Top(r.stack).query))
             /\ UNCHANGED <<partitions, totalRepoCount, countSoFar, position,
                            fetchLog, inflight, gen, outcome>>
  /\ UNCHANGED <<ovars, index, query, yielded>>

\* The remote index answers a count request.
CountResponse == CountResponseWith(findRepoCount(Top(stack).query))

\* Mutant of the failure of a count request: the request is sent once more.
CountFailure_Retry ==
  /\ inflight = "count"
  /\ outcome = "none"
  /\ outcome' = "transportError"
  /\ countLog' = Append(countLog, CountRequest(Top(stack).query))
  /\ UNCHANGED <<ovars, estimates, index, query, gen, inflight, stack, partitions,
                 totalRepoCount, countSoFar, position, yielded, fetchLog>>

\* A count request fails: the error unwinds every frame and the generator.
CountFailure ==
  /\ inflight = "count"
  /\ stack' = <<>>
  /\ inflight' = "none"
  /\ gen' = "completed"
  /\ outcome' = "transportError"
  /\ UNCHANGED <<ovars, estimates, index, query, partitions, totalRepoCount, countSoFar,
                 position, yielded, countLog, fetchLog>>

\* Mutant of the yield: the next partition's page is requested at once.
FetchResponse_Prefetch ==
  /\ inflight = "fetch"
  /\ yielded' = Append(yielded,
                       Batch(partitions[position], totalRepoCount, countSoFar))
  /\ inflight' = "none"
  /\ gen' = "suspendedYield"
  /\ fetchLog' = IF position < Len(partitions)
                 THEN Append(fetchLog, FetchRequest(partitions[position + 1]))
                 ELSE fetchLog
  /\ UNCHANGED <<ovars, estimates, index, query, outcome, stack, partitions,
                 totalRepoCount, countSoFar, position, countLog>>

\* The page of the current partition arrives: the batch is yielded.
FetchResponse ==
  /\ inflight = "fetch"
  /\ yielded' = Append(yielded,
                       Batch(partitions[position], totalRepoCount, countSoFar))
  /\ inflight' = "none"
  /\ gen' = "suspendedYield"
  /\ UNCHANGED <<ovars, estimates, index, query, outcome, stack, partitions, totalRepoCount,
                 countSoFar, position, countLog, fetchLog>>

\* Mutant of the failure of a page request: the error is noted and the loop
\* goes on with the next partition.
FetchFailure_Continue ==
  /\ inflight = "fetch"
  /\ inflight' = "none"
  /\ gen' = "suspendedYield"
  /\ outcome' = "transportError"
  /\ UNCHANGED <<ovars, estimates, index, query, stack, partitions, totalRepoCount,
                 countSoFar, position, yielded, countLog, fetchLog>>

\* The page request fails: the generator throws.
FetchFailure ==
  /\ inflight = "fetch"
  /\ inflight' = "none"
  /\ gen' = "completed"
  /\ outcome' = "transportError"
  /\ UNCHANGED <<ovars, estimates, index, query, stack, partitions, totalRepoCount, countSoFar,
                 position, yielded, countLog, fetchLog>>

\* next() after a yield: the loop goes on.
NextResume ==
  /\ gen = "suspendedYield"
  /\ EnterLoop(partitions, totalRepoCount, countSoFar, position)
  /\ UNCHANGED <<ovars, estimates, index, query, stack, partitions, totalRepoCount,
                 yielded>>

\* The consumer leaves its for-await loop: return() on the suspended generator.
Return ==
  /\ gen \in {"suspendedStart", "suspendedYield"}
  /\ gen' = "completed"
  /\ outcome' = "returned"
  /\ UNCHANGED <<ovars, estimates, index, query, inflight, stack, partitions, totalRepoCount,
                 countSoFar, position, yielded, countLog, fetchLog>>

Next ==
  \/ NextStart
  \/ CountResponse
  \/ CountFailure
  \/ FetchResponse
  \/ FetchFailure
  \/ NextResume
  \/ Return

Spec == Init /\ [][Next]_vars

\* ------------------------------------------------- an uneven population
\* The stream over a wider time axis: half a page of repositories or none
\* at each instant, so that the repositories may crowd in a part of the
\* root range; no range of this index is too narrow to be split.
WideTimes == 0 .. WideMaxTime

WideInit ==
  /\ index \in [WideTimes -> {0, GITHUB_SEARCH_MAX_PAGE_SIZE \div 2}]
  /\ query = [created |-> [minValue |-> DateOf(0),
                           maxValue |-> DateOf(WideMaxTime)]]
  /\ gen = "suspendedStart"
  /\ outcome = "none"
  /\ inflight = "none"
  /\ stack = <<>>
  /\ partitions = <<>>
  /\ totalRepoCount = 0
  /\ countSoFar = 0
  /\ position = 0
  /\ yielded = <<>>
  /\ countLog = <<>>
  /\ fetchLog = <<>>
  /\ estimates = <<>>
  /\ OthersIdle

WideSpec == WideInit /\ [][Next]_vars

\* ---------------------------------------------- queries of more keywords
\* The query objects passed to searchRepos: a created range with a language
\* list, and with stars and forks ranges as well.
KeywordQueries ==
  {[created |-> c, language |-> l] :
     c \in {[minValue |-> DateOf(a), maxValue |-> DateOf(MaxTime)] :
              a \in {-1, 0}},
     l \in {<<"go">>, <<"go", "rust">>}}
  \cup
  {[created |-> c, language |-> <<"go">>, stars |-> st, forks |-> fk] :
     c \in {[minValue |-> DateOf(a), maxValue |-> DateOf(MaxTime)] :
              a \in {-1, 0}},
     st \in {[minValue |-> 100], [minValue |-> 0, maxValue |-> 100]},
     fk \in {[minValue |-> 5, maxValue |-> 5]}}

KeywordInit ==
  /\ index \in [Times -> {0, GITHUB_SEARCH_MAX_PAGE_SIZE \div 2,
                          GITHUB_SEARCH_MAX_PAGE_SIZE + 1}]
  /\ query \in KeywordQueries
  /\ gen = "suspendedStart"
  /\ outcome = "none"
  /\ inflight = "none"
  /\ stack = <<>>
  /\ partitions = <<>>
  /\ totalRepoCount = 0
  /\ countSoFar = 0
  /\ position = 0
  /\ yielded = <<>>
  /\ countLog = <<>>
  /\ fetchLog = <<>>
  /\ estimates = <<>>
  /\ OthersIdle

KeywordSpec == KeywordInit /\ [][Next]_vars

\* ------------------------------------------------ the end-to-end scenario
\* The scenario's count oracle: a fixed total spread evenly over the root
\* range, so that a range is reported the share its width has of the root's.
ScenarioTotal == 250

\* Root ranges: widths in ms over which the shares are whole numbers of
\* repositories, starting before, at and after the epoch.
ScenarioWidths == {10, 25, 50, 125, 250}
ScenarioStarts == {-250, -7, 0, 3}

Width(created) == TimeOf(created.maxValue) - TimeOf(created.minValue)

ProportionalCount(q) ==
  (ScenarioTotal * Width(q.created)) \div Width(query.created)

ScenarioInit ==
  /\ index = [t \in Times |-> 0]
  /\ query \in {[created |-> [minValue |-> DateOf(start),
                               maxValue |-> DateOf(start + width)]] :
                  start \in ScenarioStarts, width \in ScenarioWidths}
  /\ gen = "suspendedStart"
  /\ outcome = "none"
  /\ inflight = "none"
  /\ stack = <<>>
  /\ partitions = <<>>
  /\ totalRepoCount = 0
  /\ countSoFar = 0
  /\ position = 0
  /\ yielded = <<>>
  /\ countLog = <<>>
  /\ fetchLog = <<>>
  /\ estimates = <<>>
  /\ OthersIdle

\* The scenario's oracle answers a count request.
ScenarioCountResponse ==
  CountResponseWith(ProportionalCount(Top(stack).query))

ScenarioNext ==
  \/ NextStart
  \/ ScenarioCountResponse
  \/ CountFailure
  \/ FetchResponse
  \/ FetchFailure
  \/ NextResume
  \/ Return

ScenarioSpec == ScenarioInit /\ [][ScenarioNext]_vars

\* -------------------------------------------------------- the serializer
\* JavaScript values: undefined, a number (an integer here), a Date (its
\* time value in ms) and a string.
JsUndefined == [t |-> "undefined", n |-> 0, s |-> ""]
JsNumber(n) == [t |-> "number", n |-> n, s |-> ""]
JsDate(ms) == [t |-> "date", n |-> ms, s |-> ""]
JsString(str) == [t |-> "string", n |-> 0, s |-> str]

\* !value
Falsy(value) ==
  \/ value.t = "undefined"
  \/ (value.t = "number" /\ value.n = 0)
  \/ (value.t = "string" /\ value.s = "")

\* A keyword object gives each of the three property names its value, or
\* Absent when the object has no such property; Has is the `in` operator and
\* keyword.name of a missing property is undefined.
Absent == [t |-> "absent", n |-> 0, s |-> ""]
PropNames == {"minValue", "maxValue", "value"}
Has(keyword, name) == keyword[name] # Absent
Props(keyword) == {name \in PropNames : Has(keyword, name)}
Prop(keyword, name) ==
  IF Has(keyword, name) THEN keyword[name] ELSE JsUndefined

Pad3(n) ==
  IF n < 10 THEN "00" \o ToString(n)
  ELSE IF n < 100 THEN "0" \o ToString(n)
  ELSE ToString(n)

\* Date.prototype.toISOString, for instants within a second of the epoch.
toISOString(ms) ==
  IF ms >= 0 THEN "1970-01-01T00:00:00." \o Pad3(ms) \o "Z"
  ELSE "1969-12-31T23:59:59." \o Pad3(1000 + ms) \o "Z"

repoSearchValueToString(value) ==
  IF Falsy(value) THEN "*"
  ELSE IF value.t = "date" THEN toISOString(value.n)
  ELSE IF value.t = "number" THEN ToString(value.n)
  ELSE value.s

repoSearchSingleValueKeywordToString(keyword) ==
  IF Falsy(Prop(keyword, "value")) THEN ""
  ELSE repoSearchValueToString(Prop(keyword, "value"))

repoSearchRangeKeywordToString(keyword) ==
  IF Falsy(Prop(keyword, "minValue")) /\ Falsy(Prop(keyword, "maxValue"))
  THEN ""
  ELSE repoSearchValueToString(Prop(keyword, "minValue")) \o ".."
         \o repoSearchValueToString(Prop(keyword, "maxValue"))

\* The outcome of a call: the string returned, or the Error thrown.
Returned(str) == [kind |-> "returned", value |-> str]
Threw(message) == [kind |-> "threw", value |-> message]

repoSearchKeywordToString(keyword) ==
  IF Has(keyword, "minValue")
  THEN Returned(repoSearchRangeKeywordToString(keyword))
  ELSE IF Has(keyword, "value")
  THEN Returned(repoSearchSingleValueKeywordToString(keyword))
  ELSE Threw("Unexpected code execution path.")

\* A query object is the sequence of its entries in property order; an
\* entry holds a keyword or an array of keywords.
Entry(key, keyword) == [key |-> key, isArray |-> FALSE, value |-> keyword]
ArrayEntry(key, keywords) == [key |-> key, isArray |-> TRUE, value |-> keywords]

RECURSIVE FlatMapEntries_FirstOnly(_)
\* Mutant of the flattening: an array contributes its first keyword only.
FlatMapEntries_FirstOnly(entries) ==
  IF entries = <<>> THEN <<>>
  ELSE LET e == Head(entries)
           pairs == IF e.isArray
                    THEN [i \in 1 .. (IF e.value = <<>> THEN 0 ELSE 1) |->
                            [key |-> e.key, keyword |-> e.value[i]]]
                    ELSE <<[key |-> e.key, keyword |-> e.value]>>
       IN pairs \o FlatMapEntries_FirstOnly(Tail(entries))

RECURSIVE FlatMapEntries(_)
\* Object.entries(query).flatMap(...): one [key, keyword] pair per keyword.
FlatMapEntries(entries) ==
  IF entries = <<>> THEN <<>>
  ELSE LET e == Head(entries)
           pairs == IF e.isArray
                    THEN [i \in 1 .. Len(e.value) |->
                            [key |-> e.key, keyword |-> e.value[i]]]
                    ELSE <<[key |-> e.key, keyword |-> e.value]>>
       IN pairs \o FlatMapEntries(Tail(entries))

RECURSIVE JoinTokens_KeepEmpty(_)
\* Mutant of the joining: the pairs with an empty string are not filtered out.
JoinTokens_KeepEmpty(pairs) ==
  IF pairs = <<>> THEN ""
  ELSE LET str == repoSearchKeywordToString(Head(pairs).keyword).value
           rest == JoinTokens_KeepEmpty(Tail(pairs))
       IN IF Tail(pairs) = <<>> THEN Head(pairs).key \o ":" \o str
          ELSE Head(pairs).key \o ":" \o str \o " " \o rest

RECURSIVE JoinTokens(_)
\* .filter(str !== "").map(`${fieldName}:${keywordStr}`).join(" ")
JoinTokens(pairs) ==
  IF pairs = <<>> THEN ""
  ELSE LET str == repoSearchKeywordToString(Head(pairs).keyword).value
           rest == JoinTokens(Tail(pairs))
       IN IF str = "" THEN rest
          ELSE IF rest = "" THEN Head(pairs).key \o ":" \o str
          ELSE Head(pairs).key \o ":" \o str \o " " \o rest

repoSearchQueryToString(entries) ==
  LET pairs == FlatMapEntries(entries)
      throwing == {i \in 1 .. Len(pairs) :
                     repoSearchKeywordToString(pairs[i].keyword).kind = "threw"}
  IN IF throwing # {}
     THEN repoSearchKeywordToString(
            pairs[CHOOSE i \in throwing : \A j \in throwing : i <= j].keyword)
     ELSE Returned(JoinTokens(pairs))

\* Inputs of the serializer.
\* The objects whose properties are among `names`, with values in `values`.
Objects(names, values) ==
  {k \in [PropNames -> values \cup {Absent}] :
     \A name \in PropNames \ names : k[name] = Absent}

NumberKeywords ==
  Objects({"minValue", "maxValue"},
          {JsUndefined, JsNumber(-10), JsNumber(0), JsNumber(5), JsNumber(100)})

DateKeywords ==
  Objects({"minValue", "maxValue"},
          {JsUndefined, JsDate(-1), JsDate(0), JsDate(965)})

ValueKeywords ==
  Objects({"value"},
          {JsUndefined, JsString(""), JsString("go"), JsString("rust")})

KeywordInputs == NumberKeywords \cup DateKeywords \cup ValueKeywords

SingleValue(v) == [name \in PropNames |-> IF name = "value" THEN v ELSE Absent]
GoKeyword == SingleValue(JsString("go"))
RustKeyword == SingleValue(JsString("rust"))
EmptyObject == [name \in PropNames |-> Absent]

\* The optional properties of a query: absent (no entry) or one entry.
LanguageEntries ==
  {<<>>} \cup {<<ArrayEntry("language", ks)>> :
                 ks \in {<<>>, <<GoKeyword>>, <<GoKeyword, RustKeyword>>,
                         <<RustKeyword, GoKeyword>>,
                         <<SingleValue(JsUndefined), RustKeyword>>}}

StarsEntries ==
  {<<>>} \cup {<<Entry("stars", k)>> :
                 k \in Objects({"minValue", "maxValue"},
                               {JsUndefined, JsNumber(0), JsNumber(100)})}

ForksEntries ==
  {<<>>} \cup {<<Entry("forks", k)>> :
                 k \in Objects({"minValue", "maxValue"}, {JsNumber(5)})}

\* The created keyword of a query: each property absent, undefined or a Date.
CreatedEntries ==
  {<<Entry("created", c)>> :
     c \in Objects({"minValue", "maxValue"}, {JsUndefined, JsDate(965)})}

\* The property orders queries are built in: that of the interface (created,
\* language, stars, forks) and that of main (language, stars, created).
PropertyOrders == {"interface", "main"}

QueryInputs(order) ==
  {IF order = "interface" THEN c \o l \o st \o f ELSE l \o st \o c \o f :
     <<c, l, st, f>> \in
       CreatedEntries \X LanguageEntries \X StarsEntries \X ForksEntries}

\* The argument of a call: a keyword object or a query object.
KeywordArg(k) == [kind |-> "keyword", keyword |-> k, entries |-> <<>>]
QueryArg(q) == [kind |-> "query", keyword |-> EmptyObject, entries |-> q]

\* No stream is in use while the serializer is exercised on its own.
SerInit ==
  /\ serArg \in {KeywordArg(k) : k \in KeywordInputs}
                  \cup {QueryArg(q) : q \in UNION {QueryInputs(order) :
                                                      order \in PropertyOrders}}
  /\ serResult = NoCall
  /\ index = [t \in Times |-> 0]
  /\ query = [created |-> [minValue |-> Undefined, maxValue |-> Undefined]]
  /\ gen = "completed"
  /\ outcome = "returned"
  /\ inflight = "none"
  /\ stack = <<>>
  /\ partitions = <<>>
  /\ totalRepoCount = 0
  /\ countSoFar = 0
  /\ position = 0
  /\ yielded = <<>>
  /\ countLog = <<>>
  /\ fetchLog = <<>>
  /\ estimates = <<>>
  /\ NoGit
  /\ NoMain
  /\ NoSort

StreamUnchanged ==
  UNCHANGED <<index, query, gen, outcome, inflight, stack, partitions,
              totalRepoCount, countSoFar, position, yielded, countLog, fetchLog,
              estimates>>

CallKeywordToString ==
  /\ serArg.kind = "keyword"
  /\ serResult = NoCall
  /\ serResult' = repoSearchKeywordToString(serArg.keyword)
  /\ UNCHANGED serArg
  /\ StreamUnchanged
  /\ UNCHANGED <<gvars, mvars, sortvars>>

CallQueryToString ==
  /\ serArg.kind = "query"
  /\ serResult = NoCall
  /\ serResult' = repoSearchQueryToString(serArg.entries)
  /\ UNCHANGED serArg
  /\ StreamUnchanged
  /\ UNCHANGED <<gvars, mvars, sortvars>>

SerNext ==
  \/ CallKeywordToString
  \/ CallQueryToString

SerSpec == SerInit /\ [][SerNext]_vars

\* --------------------------------------------------------- fetchRepoCode
\* src/src/git.ts:16
GIT_CLONE_RETRIES == 10

\* The clone directory is absent, or it holds: what was there before the
\* call ("existing"), what a failed git clone left behind ("partial"), a
\* fresh clone ("cloned"), a clone part of whose files a failed find deleted
\* ("partlyCleaned"), the clone without its non-code files ("filesDeleted"),
\* or that without its empty directories ("cleaned").
DirStates ==
  {"absent", "existing", "partial", "cloned", "partlyCleaned", "filesDeleted",
   "cleaned"}

\* fs.existsSync(cloneDir)
existsSync(dir) == dir # "absent"

\* A command issued in attempt n with the clone directory in state dir.
Command(op, n, dir) == [op |-> op, attempt |-> n, dir |-> dir]

\* gitCloneHelper of attempt n up to its first await: the rm of an existing
\* clone directory, or else the git clone.
gitCloneHelper(n) ==
  IF existsSync(cloneDir)
  THEN /\ gitPc' = "rmAsync"
       /\ gitLog' = Append(gitLog, Command("rm", n, cloneDir))
  ELSE /\ gitPc' = "execGitClone"
       /\ gitLog' = Append(gitLog, Command("git clone", n, cloneDir))

GitInit ==
  /\ gitPc = "called"
  /\ cloneDir \in {"absent", "existing", "partial"}
  /\ attempt = 0
  /\ gitLog = <<>>
  /\ NoSerializer
  /\ NoMain
  /\ NoSort
  /\ index = [t \in Times |-> 0]
  /\ query = [created |-> [minValue |-> Undefined, maxValue |-> Undefined]]
  /\ gen = "completed"
  /\ outcome = "returned"
  /\ inflight = "none"
  /\ stack = <<>>
  /\ partitions = <<>>
  /\ totalRepoCount = 0
  /\ countSoFar = 0
  /\ position = 0
  /\ yielded = <<>>
  /\ countLog = <<>>
  /\ fetchLog = <<>>
  /\ estimates = <<>>

GitFrame == StreamUnchanged /\ UNCHANGED <<svars, mvars, sortvars>>

\* Mutant of fetchRepoCode: no test of the clone directory before cloning.
fetchRepoCode_NoSkip ==
  /\ gitPc = "called"
  /\ attempt' = 1
  /\ cloneDir' = cloneDir
  /\ gitCloneHelper(1)
  /\ GitFrame

\* fetchRepoCode up to its first await: it returns at once when the clone
\* directory exists, or else starts gitClone, whose first attempt runs.
fetchRepoCode ==
  /\ gitPc = "called"
  /\ IF existsSync(cloneDir)
     THEN /\ gitPc' = "resolved"
          /\ UNCHANGED <<cloneDir, attempt, gitLog>>
     ELSE /\ attempt' = 1
          /\ cloneDir' = cloneDir
          /\ gitCloneHelper(1)
  /\ GitFrame

\* Mutant of the retry: one retry more than the options allow.
AttemptFailed_OneRetryMore ==
  /\ gitPc' = IF attempt <= GIT_CLONE_RETRIES + 1 THEN "retryTimeout"
              ELSE "rejected"
  /\ UNCHANGED <<attempt, gitLog>>

\* The attempt threw: async-retry schedules the next one, or gives up after
\* the last retry, and then gitClone and fetchRepoCode reject.
AttemptFailed ==
  /\ gitPc' = IF attempt <= GIT_CLONE_RETRIES THEN "retryTimeout" ELSE "rejected"
  /\ UNCHANGED <<attempt, gitLog>>

\* rmAsync is done: the directory is gone and git clone is run.
RmDone ==
  /\ gitPc = "rmAsync"
  /\ cloneDir' = "absent"
  /\ gitPc' = "execGitClone"
  /\ gitLog' = Append(gitLog, Command("git clone", attempt, "absent"))
  /\ UNCHANGED attempt
  /\ GitFrame

\* rmAsync rejects: the attempt fails with the directory left in place.
RmFailed ==
  /\ gitPc = "rmAsync"
  /\ UNCHANGED cloneDir
  /\ AttemptFailed
  /\ GitFrame

\* git clone exits with 0: gitClone resolves and cleanUpRepo runs its
\* first find.
GitCloneDone ==
  /\ gitPc = "execGitClone"
  /\ cloneDir' = "cloned"
  /\ gitPc' = "execFindFiles"
  /\ gitLog' = Append(gitLog, Command("find -type f -delete", attempt, "cloned"))
  /\ UNCHANGED attempt
  /\ GitFrame

\* git clone fails, leaving no directory or a partial one.
GitCloneFailed ==
  /\ gitPc = "execGitClone"
  /\ cloneDir' \in {"absent", "partial"}
  /\ AttemptFailed
  /\ GitFrame

\* The timeout of async-retry fires: the next attempt runs gitCloneHelper.
RetryTimeout ==
  /\ gitPc = "retryTimeout"
  /\ attempt' = attempt + 1
  /\ cloneDir' = cloneDir
  /\ gitCloneHelper(attempt + 1)
  /\ GitFrame

\* The first find is done: the second one, deleting empty directories, runs.
FindFilesDone ==
  /\ gitPc = "execFindFiles"
  /\ cloneDir' = "filesDeleted"
  /\ gitPc' = "execFindDirs"
  /\ gitLog' = Append(gitLog, Command("find -type d -empty -delete", attempt,
                                      "filesDeleted"))
  /\ UNCHANGED attempt
  /\ GitFrame

\* Mutant of the failure of the first find: the error is thrown on.
FindFilesFailed_Rethrow ==
  /\ gitPc = "execFindFiles"
  /\ cloneDir' \in {"cloned", "partlyCleaned"}
  /\ gitPc' = "rejected"
  /\ UNCHANGED <<attempt, gitLog>>
  /\ GitFrame

\* The first find fails: the catch logs a warning and fetchRepoCode
\* resolves; the find may have deleted some files before it failed.
FindFilesFailed ==
  /\ gitPc = "execFindFiles"
  /\ cloneDir' \in {"cloned", "partlyCleaned"}
  /\ gitPc' = "resolved"
  /\ UNCHANGED <<attempt, gitLog>>
  /\ GitFrame

FindDirsDone ==
  /\ gitPc = "execFindDirs"
  /\ cloneDir' = "cleaned"
  /\ gitPc' = "resolved"
  /\ UNCHANGED <<attempt, gitLog>>
  /\ GitFrame

\* The second find fails: the catch logs a warning, fetchRepoCode resolves.
FindDirsFailed ==
  /\ gitPc = "execFindDirs"
  /\ gitPc' = "resolved"
  /\ UNCHANGED <<cloneDir, attempt, gitLog>>
  /\ GitFrame

GitNext ==
  \/ fetchRepoCode
  \/ RmDone
  \/ RmFailed
  \/ GitCloneDone
  \/ GitCloneFailed
  \/ RetryTimeout
  \/ FindFilesDone
  \/ FindFilesFailed
  \/ FindDirsDone
  \/ FindDirsFailed

GitSpec == GitInit /\ [][GitNext]_vars

\* ------------------------------------------------------------------ main
\* Values of --max-repo-count: the option not given, or a number.
MaxRepoCounts == {Undefined} \cup {<<n>> : n \in {0, 1, 100, 150}}

\* maxRepoCount && partition.countProgress >= maxRepoCount
MaxRepoCountReached(partition) ==
  /\ maxRepoCount # Undefined
  /\ maxRepoCount[1] # 0
  /\ partition.countProgress >= maxRepoCount[1]

NoRepos == [t \in DOMAIN index |-> 0]

MainInit ==
  /\ index \in [Times -> {0, 1, GITHUB_SEARCH_MAX_PAGE_SIZE \div 2}]
  /\ query = [created |-> [minValue |-> DateOf(-1),
                           maxValue |-> DateOf(MaxTime)]]
  /\ gen = "suspendedStart"
  /\ outcome = "none"
  /\ inflight = "none"
  /\ stack = <<>>
  /\ partitions = <<>>
  /\ totalRepoCount = 0
  /\ countSoFar = 0
  /\ position = 0
  /\ yielded = <<>>
  /\ countLog = <<>>
  /\ fetchLog = <<>>
  /\ estimates = <<>>
  /\ NoSerializer
  /\ NoGit
  /\ NoSort
  /\ mainPc = "start"
  /\ dryRun \in BOOLEAN
  /\ maxRepoCount \in MaxRepoCounts
  /\ reposDir \in BOOLEAN
  /\ noOwner \in {{}, {0}}
  /\ handled = 0
  /\ cloningLog = <<>>
  /\ fetchRepoCodeCalls = <<>>
  /\ cloneDirs = NoRepos

MainFrame == StreamUnchanged /\ UNCHANGED <<svars, gvars, sortvars>>

\* parseArgs and the creation of the repos directory.
MainStart ==
  /\ mainPc = "start"
  /\ reposDir' = TRUE
  /\ mainPc' = "forAwait"
  /\ UNCHANGED <<dryRun, maxRepoCount, noOwner, handled, cloningLog,
                 fetchRepoCodeCalls, cloneDirs>>
  /\ MainFrame

\* for await: the first next() on the stream.
MainNextStart ==
  /\ mainPc = "forAwait"
  /\ NextStart

\* for await: next() after the body is done with a batch.
MainNextResume ==
  /\ mainPc = "forAwait"
  /\ handled = Len(yielded)
  /\ NextResume

\* Mutant of the loop body: fetchRepoCode is called in dry-run mode too.
MainLoopBody_IgnoreDryRun ==
  /\ mainPc = "forAwait"
  /\ gen = "suspendedYield"
  /\ handled < Len(yielded)
  /\ LET partition == yielded[handled + 1]
     IN /\ cloningLog' = Append(cloningLog, partition.repos)
        /\ fetchRepoCodeCalls' =
             Append(fetchRepoCodeCalls,
                    [t \in DOMAIN index |->
                       IF t \in noOwner THEN 0 ELSE partition.repos[t]])
  /\ mainPc' = "promiseAll"
  /\ UNCHANGED <<dryRun, maxRepoCount, reposDir, noOwner, handled, cloneDirs>>
  /\ MainFrame

\* The body of the loop for the batch just delivered, up to the await of
\* Promise.all: every repository is logged; unless in dry-run mode,
\* fetchRepoCode is called for each repository that has an owner.
MainLoopBody ==
  /\ mainPc = "forAwait"
  /\ gen = "suspendedYield"
  /\ handled < Len(yielded)
  /\ LET partition == yielded[handled + 1]
     IN /\ cloningLog' = Append(cloningLog, partition.repos)
        /\ fetchRepoCodeCalls' =
             Append(fetchRepoCodeCalls,
                    [t \in DOMAIN index |->
                       IF dryRun \/ t \in noOwner THEN 0
                       ELSE partition.repos[t]])
  /\ mainPc' = "promiseAll"
  /\ UNCHANGED <<dryRun, maxRepoCount, reposDir, noOwner, handled, cloneDirs>>
  /\ MainFrame

\* The clone directories once the calls of fetchRepoCode for `calls` are
\* done: those there before and one for each repository fetched.
DirsAfter(dirs, calls) ==
  [t \in DOMAIN index |-> IF calls[t] > dirs[t] THEN calls[t] ELSE dirs[t]]

\* Promise.all resolves: the progress is logged, and the loop is left when
\* the maximal repository count is reached.
MainAllResolved ==
  /\ mainPc = "promiseAll"
  /\ cloneDirs' = DirsAfter(cloneDirs, fetchRepoCodeCalls[handled + 1])
  /\ handled' = handled + 1
  /\ mainPc' = IF MaxRepoCountReached(yielded[handled + 1]) THEN "break"
               ELSE "forAwait"
  /\ UNCHANGED <<dryRun, maxRepoCount, reposDir, noOwner, cloningLog,
                 fetchRepoCodeCalls>>
  /\ MainFrame

\* Promise.all rejects, a call of fetchRepoCode having rejected: main
\* throws out of the loop; the other calls may or may not have finished.
MainOneRejected ==
  /\ mainPc = "promiseAll"
  /\ fetchRepoCodeCalls[handled + 1] # NoRepos
  /\ cloneDirs' \in {cloneDirs,
                     DirsAfter(cloneDirs, fetchRepoCodeCalls[handled + 1])}
  /\ mainPc' = "throw"
  /\ UNCHANGED <<dryRun, maxRepoCount, reposDir, noOwner, handled, cloningLog,
                 fetchRepoCodeCalls>>
  /\ MainFrame

\* Leaving the loop by break or by an exception closes the stream.
MainReturn ==
  /\ mainPc \in {"break", "throw"}
  /\ gen = "suspendedYield"
  /\ Return

\* The end of main: "Done." after the loop, or the exit with code 1 when
\* the stream or a clone threw.
MainEnd ==
  /\ gen = "completed"
  /\ mainPc \in {"forAwait", "break", "throw"}
  /\ mainPc' = IF mainPc = "throw" \/ outcome \in {"configError", "transportError"}
               THEN "exit1"
               ELSE "done"
  /\ UNCHANGED <<dryRun, maxRepoCount, reposDir, noOwner, handled, cloningLog,
                 fetchRepoCodeCalls, cloneDirs>>
  /\ MainFrame

MainNext ==
  \/ MainStart
  \/ MainNextStart
  \/ CountResponse
  \/ CountFailure
  \/ FetchResponse
  \/ FetchFailure
  \/ MainLoopBody
  \/ MainAllResolved
  \/ MainOneRejected
  \/ MainNextResume
  \/ MainReturn
  \/ MainEnd

MainSpec == MainInit /\ [][MainNext]_vars

\* ------------------------------------------- the sort-based searchRepos
\* src/src/const.ts:78
GITHUB_SEARCH_MAX_RESULT_COUNT == 1000

\* By how many ranks the remote ranking may move on between two requests.
MaxDrift == 1

\* Sizes of the remote population and values of the maxRepoCount argument.
Populations == {0, 3, 120, 250, 1200, 2100}
MaxRepoCountArgs == {0, 1, 3, 100, 150, 1000, 1500}

Min(a, b) == IF a <= b THEN a ELSE b

\* Math.ceil(a / b) for integers a >= 0 and b > 0.
CeilDiv(a, b) == (a + b - 1) \div b

\* A repository is its id, 1 .. population; its forks_count (or
\* stargazers_count) falls with the id, two repositories sharing each value
\* and the last two having none.
SortFieldOf(id) == (population - id) \div 2

\* The repositories the query of searchReposHelper matches: all of the
\* language, or those whose sort field is below sortFieldMaxValue when that
\* is set (`if (sortFieldMaxValue)`: 0 counts as not set).
MatchingIds(maxValue) ==
  {id \in 1 .. population : maxValue = 0 \/ SortFieldOf(id) < maxValue}

\* The matches in the order asked for; they are ids first .. population.
Ranked(ids, ord) ==
  LET n == Cardinality(ids)
  IN [i \in 1 .. n |->
        IF ord = "desc" THEN population - n + i ELSE population - i + 1]

\* res.data.items of the request for page number pg of size per_page, the
\* ranking having moved on by d ranks since the first request.
PageItems(ranked, pg, per_page, d) ==
  LET from == IF (pg - 1) * per_page + 1 - d < 1 THEN 1
              ELSE (pg - 1) * per_page + 1 - d
      to == Min(Len(ranked), pg * per_page - d)
  IN SubSeq(ranked, from, to)

Ids(items) == {items[i] : i \in 1 .. Len(items)}

\* Mutant of the de-duplication: every item is kept.
differenceBy_KeepAll(items, others) == items

\* _.differenceBy(items, others, (x) => x.id)
differenceBy(items, others) ==
  LET known == Ids(others) IN SelectSeq(items, LAMBDA id : id \notin known)

\* Math.min(...repos.map((repo) => repo.forks_count))
MinSortField(repos) ==
  LET values == {SortFieldOf(id) : id \in Ids(repos)}
  IN CHOOSE v \in values : \A w \in values : v <= w

maxRepoCountForOneCall == Min(maxRepoCountArg, GITHUB_SEARCH_MAX_RESULT_COUNT)

\* Math.ceil(maxRepoCount / maxRepoCountForOneCall); for maxRepoCount = 0
\* this is NaN, and `call <= NaN` is false as `call <= 0` is.
callCount ==
  IF maxRepoCountForOneCall = 0 THEN 0
  ELSE CeilDiv(maxRepoCountArg, maxRepoCountForOneCall)

pageSize == Min(maxRepoCountForOneCall, GITHUB_SEARCH_MAX_PAGE_SIZE)
pageCount == CeilDiv(maxRepoCountForOneCall, pageSize)

SortInit ==
  /\ sortPc = "called"
  /\ population \in Populations
  /\ sortOrder \in {"desc", "asc"}
  /\ maxRepoCountArg \in MaxRepoCountArgs
  /\ call = 0
  /\ page = 0
  /\ drift = 0
  /\ sortFieldMaxValue = 0
  /\ itemsFromAllPages = <<>>
  /\ itemsFromAllCalls = <<>>
  /\ NoSerializer
  /\ NoGit
  /\ NoMain
  /\ index = [t \in Times |-> 0]
  /\ query = [created |-> [minValue |-> Undefined, maxValue |-> Undefined]]
  /\ gen = "completed"
  /\ outcome = "returned"
  /\ inflight = "none"
  /\ stack = <<>>
  /\ partitions = <<>>
  /\ totalRepoCount = 0
  /\ countSoFar = 0
  /\ position = 0
  /\ yielded = <<>>
  /\ countLog = <<>>
  /\ fetchLog = <<>>
  /\ estimates = <<>>

SortFrame ==
  /\ StreamUnchanged
  /\ UNCHANGED <<svars, gvars, mvars, population, sortOrder, maxRepoCountArg>>

\* searchReposHelper up to its first await: the request for page 1, or the
\* Error when more than the maximal result count is asked for.
searchReposHelper(allCalls, nextCall, maxValue) ==
  /\ itemsFromAllCalls' = allCalls
  /\ call' = nextCall
  /\ sortFieldMaxValue' = maxValue
  /\ itemsFromAllPages' = <<>>
  /\ IF maxRepoCountForOneCall > GITHUB_SEARCH_MAX_RESULT_COUNT
     THEN sortPc' = "threw" /\ page' = 0
     ELSE sortPc' = "awaitPage" /\ page' = 1

\* searchRepos up to its first await, or to its return when no call is due.
searchReposStart ==
  /\ sortPc = "called"
  /\ IF 1 <= callCount
     THEN searchReposHelper(<<>>, 1, 0)
     ELSE /\ sortPc' = "returned"
          /\ UNCHANGED <<call, page, sortFieldMaxValue, itemsFromAllPages,
                         itemsFromAllCalls>>
  /\ UNCHANGED drift
  /\ SortFrame

\* The code of searchRepos after a call of the helper returned repos.
AfterHelper(repos) ==
  IF repos = <<>>
  THEN /\ sortPc' = "returned"
       /\ itemsFromAllPages' = repos
       /\ UNCHANGED <<call, page, sortFieldMaxValue, itemsFromAllCalls>>
  ELSE LET allCalls == itemsFromAllCalls
                         \o differenceBy(repos, itemsFromAllCalls)
       IN IF call + 1 <= callCount
          THEN searchReposHelper(allCalls, call + 1, MinSortField(repos))
          ELSE /\ sortPc' = "returned"
               /\ itemsFromAllCalls' = allCalls
               /\ itemsFromAllPages' = repos
               /\ sortFieldMaxValue' = MinSortField(repos)
               /\ UNCHANGED <<call, page>>

\* A page arrives: its new items are kept, and the next page is requested
\* or the helper returns.
PageResponse ==
  /\ sortPc = "awaitPage"
  /\ \E d \in drift .. MaxDrift :
       /\ drift' = d
       /\ LET items == PageItems(Ranked(MatchingIds(sortFieldMaxValue),
                                        sortOrder),
                                 page, pageSize, d)
              allPages == itemsFromAllPages
                            \o differenceBy(items, itemsFromAllPages)
          IN IF page + 1 <= pageCount
             THEN /\ page' = page + 1
                  /\ itemsFromAllPages' = allPages
                  /\ UNCHANGED <<sortPc, call, sortFieldMaxValue,
                                 itemsFromAllCalls>>
             ELSE AfterHelper(allPages)
  /\ SortFrame

\* A request fails: the helper and searchRepos reject.
PageFailure ==
  /\ sortPc = "awaitPage"
  /\ sortPc' = "threw"
  /\ UNCHANGED <<call, page, drift, sortFieldMaxValue, itemsFromAllPages,
                 itemsFromAllCalls>>
  /\ SortFrame

SortNext ==
  \/ searchReposStart
  \/ PageResponse
  \/ PageFailure

SortSpec == SortInit /\ [][SortNext]_vars

\* ------------------------------------------------------- model soundness
TypeOK ==
  /\ gen \in {"suspendedStart", "executing", "suspendedYield", "completed"}
  /\ outcome \in {"none", "done", "returned", "configError", "transportError"}
  /\ inflight \in {"none", "count", "fetch"}
  /\ Len(stack) <= MaxDepth
  /\ position \in 0 .. Len(partitions)
  /\ (gen = "completed") = (outcome # "none")
  /\ (inflight # "none") => gen = "executing"

RangeOf(f) == f.query.created

\* The depth bound stops only calls that repeat the range of a caller, that
\* is, recursions that never return.
DepthBoundCutsOnlyDivergence ==
  Len(stack) = MaxDepth =>
    \E i, j \in 1 .. Len(stack) : i < j /\ RangeOf(stack[i]) = RangeOf(stack[j])

\* ---------------------------------------------------------------- claims
PartitionReturned == partitions # <<>>

CreatedOf(p) == [minValue |-> p.startDate, maxValue |-> p.endDate]

RootCount == findRepoCount(query)

\* C1: every Partition of the returned list has count <= the cap, and its
\* count is what the count oracle reports for the leaf's date range.
C1_LeafCountWithinCap ==
  \A i \in 1 .. Len(partitions) :
    /\ partitions[i].count <= GITHUB_SEARCH_MAX_PAGE_SIZE
    /\ partitions[i].count = findRepoCount([created |-> CreatedOf(partitions[i])])

\* A list of several leaves was returned for a root above the cap.
C1_Witness ==
  /\ Len(partitions) >= 2
  /\ RootCount > GITHUB_SEARCH_MAX_PAGE_SIZE

\* C2: the counts of the returned leaves sum to the count the oracle
\* reports for the root filter.
C2_SumOfLeavesIsRootCount ==
  PartitionReturned => SumCounts(partitions) = RootCount

\* C3: no repository matches the date range of two different leaves, and
\* no repository is delivered in two batches of the stream.
C3_LeavesDisjoint ==
  /\ \A i, j \in 1 .. Len(partitions) : \A t \in Times :
       (i < j /\ index[t] > 0) =>
         ~(Matches(CreatedOf(partitions[i]), t) /\ Matches(CreatedOf(partitions[j]), t))
  /\ \A i, j \in 1 .. Len(yielded) : \A t \in Times :
       i < j => ~(yielded[i].repos[t] > 0 /\ yielded[j].repos[t] > 0)

\* A frame whose range cannot be narrowed: the midpoint is one of its ends.
Degenerate(f) ==
  LET c == RangeOf(f)
  IN MidDate(c.minValue, c.maxValue) \in {c.minValue, c.maxValue}

\* C4: a call whose range can no longer be narrowed and whose count exceeds
\* the cap ends with an error: it never goes on to a recursive call.
C4_DegenerateRangeIsFatal ==
  \A i \in 1 .. Len(stack) :
    Degenerate(stack[i]) => stack[i].at = "count"

\* C5: every returned Partition has startDate strictly before endDate.
C5_LeafStartBeforeEnd ==
  \A i \in 1 .. Len(partitions) :
    TimeOf(partitions[i].startDate) < TimeOf(partitions[i].endDate)

\* C6: consecutive leaves p, q of the returned list satisfy
\* p.startDate <= q.startDate and p.endDate <= q.startDate.
C6_LeavesInDateOrder ==
  \A i \in 1 .. Len(partitions) - 1 :
    /\ TimeOf(partitions[i].startDate) <= TimeOf(partitions[i + 1].startDate)
    /\ TimeOf(partitions[i].endDate) <= TimeOf(partitions[i + 1].startDate)

\* A list of three leaves or more, so both branches of a bisection count.
C6_Witness == Len(partitions) >= 3

\* C7: a root count within the cap gives exactly one Partition, spanning
\* the filter's own created range and carrying the root count, after
\* exactly one count request.
C7_SmallRootIsOneLeaf ==
  (PartitionReturned /\ RootCount <= GITHUB_SEARCH_MAX_PAGE_SIZE) =>
    /\ partitions = <<[count |-> RootCount,
                       startDate |-> query.created.minValue,
                       endDate |-> query.created.maxValue]>>
    /\ Len(countLog) = 1

\* The root holds exactly a page and was returned as one leaf.
C7_Witness ==
  /\ PartitionReturned
  /\ RootCount = GITHUB_SEARCH_MAX_PAGE_SIZE
  /\ Len(partitions) = 1

RangeLacksBound ==
  query.created.minValue = Undefined \/ query.created.maxValue = Undefined

\* C8: a created range without its minimum or its maximum makes the
\* partitioning fail before any remote call, and the stream yields nothing.
C8_UnboundedRangeFailsBeforeAnyCall ==
  RangeLacksBound =>
    /\ countLog = <<>>
    /\ fetchLog = <<>>
    /\ inflight = "none"
    /\ partitions = <<>>
    /\ yielded = <<>>
    /\ gen \in {"suspendedStart", "completed"}
    /\ outcome \in {"none", "returned", "configError"}

\* The first next() on such a stream threw the configuration error.
C8_Witness ==
  /\ RangeLacksBound
  /\ outcome = "configError"

RECURSIVE SumInPartition(_, _)
SumInPartition(bs, i) ==
  IF i = 0 THEN 0 ELSE bs[i].countInPartition + SumInPartition(bs, i - 1)

\* C9: countProgress never decreases from one batch to the next, and the
\* i-th batch's countProgress is the sum of countInPartition over 1..i.
C9_ProgressIsRunningSum ==
  \A i \in 1 .. Len(yielded) :
    /\ yielded[i].countProgress = SumInPartition(yielded, i)
    /\ i > 1 => yielded[i - 1].countProgress <= yielded[i].countProgress

\* Two batches delivered, each carrying repositories.
C9_Witness ==
  /\ Len(yielded) >= 2
  /\ yielded[1].countInPartition > 0
  /\ yielded[2].countInPartition > 0

\* C10: the last batch of a stream consumed to exhaustion has
\* percentageProgress equal to 1, also when the root count is 0.
C10_LastBatchIsComplete ==
  outcome = "done" => IsOne(yielded[Len(yielded)].percentageProgress)

\* C11: a consumer that stops after k batches has caused exactly k page
\* requests, and no count request is issued once the partition list exists.
C11_CancelStopsFetching ==
  [][/\ (outcome' = "returned" => Len(fetchLog') = Len(yielded'))
     /\ (PartitionReturned => countLog' = countLog)]_vars

\* The consumer stopped after a batch while partitions were left.
C11_Witness ==
  /\ outcome = "returned"
  /\ Len(yielded) >= 1
  /\ Len(yielded) < Len(partitions)

\* C12: when the first page request is issued every count request has been
\* answered and the partition list is complete; none is issued afterwards.
C12_CountsBeforeFetches ==
  [][/\ (fetchLog' # <<>> =>
           (inflight' # "count" /\ stack' = <<>> /\ partitions' # <<>>))
     /\ (fetchLog # <<>> => countLog' = countLog)]_vars

\* A second page is requested after a partitioning pass of several counts.
C12_Witness ==
  /\ Len(fetchLog) >= 2
  /\ Len(countLog) >= 3

NeverRequested ==
  gen = "suspendedStart" \/ (outcome = "returned" /\ yielded = <<>>)

\* C13 as stated: the count requests of the partitioning pass are issued
\* once the stream object exists, also for a stream no batch is asked of.
C13_PartitionedAtConstruction ==
  (~RangeLacksBound /\ outcome = "returned" /\ yielded = <<>>) =>
    countLog # <<>>

\* C13 amended: the partition list is computed at the first request for a
\* batch: before it no count request is issued (a stream never iterated
\* issues none), and a batch is delivered only once the list is complete.
C13_PartitionedAtFirstRequest ==
  /\ NeverRequested => (countLog = <<>> /\ partitions = <<>>)
  /\ yielded # <<>> => (PartitionReturned /\ countLog # <<>>)

\* A stream over a root above the cap was dropped before any request.
C13_Witness ==
  /\ ~RangeLacksBound
  /\ RootCount > GITHUB_SEARCH_MAX_PAGE_SIZE
  /\ outcome = "returned"
  /\ yielded = <<>>

\* C14: when the page request of partition i fails the stream ends with the
\* error: batches 1..i-1 were delivered, no further batch is yielded and no
\* further page is requested.
C14_FetchFailureEndsStream ==
  [][/\ ((outcome' = "transportError" /\ fetchLog' # <<>>) =>
           /\ gen' = "completed"
           /\ inflight' = "none"
           /\ Len(yielded') = Len(fetchLog') - 1)
     /\ (outcome = "transportError" =>
           (yielded' = yielded /\ fetchLog' = fetchLog))]_vars

\* The page request of the second partition or a later one failed.
C14_Witness ==
  /\ outcome = "transportError"
  /\ Len(fetchLog) >= 2

\* C15: when a count request fails the error leaves the partitioner with no
\* partition list, no further or repeated count request, no batch and no
\* page request.
C15_CountFailureEndsPartitioning ==
  [][/\ ((outcome' = "transportError" /\ fetchLog' = <<>>) =>
           /\ gen' = "completed"
           /\ inflight' = "none"
           /\ stack' = <<>>
           /\ partitions' = <<>>
           /\ yielded' = <<>>)
     /\ (outcome = "transportError" =>
           (countLog' = countLog /\ fetchLog' = fetchLog))]_vars

\* The count request of a recursive call failed.
C15_Witness ==
  /\ outcome = "transportError"
  /\ fetchLog = <<>>
  /\ Len(countLog) >= 2

\* Remote calls awaiting their response: one per frame at its count, and
\* the page request of the loop.
InFlightCalls ==
  Cardinality({i \in 1 .. Len(stack) : stack[i].at = "count"})
    + (IF inflight = "fetch" THEN 1 ELSE 0)

\* C16: at most one remote call is in flight; a right branch is entered
\* only with the left branch's result in hand; page i+1 is requested only
\* after batch i was handed to the consumer.
C16_OneCallAtATime ==
  /\ InFlightCalls <= 1
  /\ (inflight = "count") = (stack # <<>> /\ Top(stack).at = "count")
  /\ \A i \in 1 .. Len(stack) :
       /\ i < Len(stack) => stack[i].at \in {"left", "right"}
       /\ stack[i].at = "right" => stack[i].leftPartition # <<>>
  /\ Len(fetchLog) - Len(yielded) \in {0, 1}
  /\ inflight = "fetch" => (stack = <<>> /\ Len(fetchLog) = Len(yielded) + 1)
  /\ gen = "suspendedYield" => Len(fetchLog) = Len(yielded)

\* The page of a second partition is in flight after a bisection.
C16_Witness ==
  /\ inflight = "fetch"
  /\ Len(yielded) >= 1
  /\ Len(partitions) >= 2

KeywordCalled == serArg.kind = "keyword" /\ serResult # NoCall

\* The decimal form of a number and the ISO form of a Date.
Canonical(value) ==
  IF value.t = "date" THEN toISOString(value.n) ELSE ToString(value.n)

\* C17: a range keyword with only a maxValue property serializes to
\* "*..max", for numbers and for dates.
C17_MaxOnlyIsStarToMax ==
  (/\ KeywordCalled
   /\ Props(serArg.keyword) = {"maxValue"}
   /\ serArg.keyword["maxValue"].t \in {"number", "date"}) =>
    serResult = Returned("*.." \o Canonical(serArg.keyword["maxValue"]))

\* C18: the empty keyword object serializes to the empty string.
C18_EmptyKeywordIsEmptyString ==
  (KeywordCalled /\ Props(serArg.keyword) = {}) => serResult = Returned("")

\* C19: for integers min and max, 0 included, {minValue: min} serializes to
\* "min..*" and {minValue: min, maxValue: max} to "min..max" in decimal.
C19_IntegerBoundsInDecimal ==
  (/\ KeywordCalled
   /\ Has(serArg.keyword, "minValue")
   /\ \A p \in Props(serArg.keyword) : serArg.keyword[p].t = "number") =>
    serResult =
      Returned(ToString(serArg.keyword["minValue"].n) \o ".."
                 \o (IF Has(serArg.keyword, "maxValue")
                     THEN ToString(serArg.keyword["maxValue"].n)
                     ELSE "*"))

\* C20: repoSearchQueryToString returns a string for every well-formed
\* query; it never throws.
C20_QueryToStringIsTotal ==
  (serArg.kind = "query" /\ serResult # NoCall) => serResult.kind = "returned"

\* A query made of keywords the dispatch of repoSearchKeywordToString knows:
\* each has a minValue property or a value property.
Dispatchable(entries) ==
  \A i \in 1 .. Len(entries) :
    IF entries[i].isArray
    THEN \A j \in 1 .. Len(entries[i].value) : Has(entries[i].value[j], "value")
    ELSE Has(entries[i].value, "minValue")

QueryCalled == serArg.kind = "query" /\ serResult # NoCall

RECURSIVE SpaceSeparated(_)
\* "t1 t2 ... tn": the tokens with exactly one space between neighbours.
SpaceSeparated(tokens) ==
  IF tokens = <<>> THEN ""
  ELSE IF Len(tokens) = 1 THEN tokens[1]
  ELSE tokens[1] \o " " \o SpaceSeparated(Tail(tokens))

\* The token of a field holding one keyword; none when it serializes to "".
RangeFieldTokens(e) ==
  LET str == repoSearchKeywordToString(e.value).value
  IN IF str = "" THEN <<>> ELSE <<e.key \o ":" \o str>>

RECURSIVE RangeFieldsTokens(_)
RangeFieldsTokens(entries) ==
  IF entries = <<>> THEN <<>>
  ELSE RangeFieldTokens(Head(entries)) \o RangeFieldsTokens(Tail(entries))

\* f:v1 ... f:vN for the set keyword e of field f.
SetTokens(e) ==
  [i \in 1 .. Len(e.value) |-> e.key \o ":" \o e.value[i]["value"].s]

NonEmptyValues(e) ==
  \A j \in 1 .. Len(e.value) :
    e.value[j]["value"].t = "string" /\ e.value[j]["value"].s # ""

\* C21: a set keyword with N non-empty values under field f serializes to
\* exactly the N tokens f:v1 ... f:vN, in input order, between the tokens of
\* the fields before it and those of the fields after it.
C21_SetKeywordGivesTokenPerValue ==
  \A i \in 1 .. Len(serArg.entries) :
    (/\ QueryCalled
     /\ Dispatchable(serArg.entries)
     /\ serArg.entries[i].isArray
     /\ NonEmptyValues(serArg.entries[i])) =>
      serResult =
        Returned(SpaceSeparated(
          RangeFieldsTokens(SubSeq(serArg.entries, 1, i - 1))
            \o SetTokens(serArg.entries[i])
            \o RangeFieldsTokens(SubSeq(serArg.entries, i + 1,
                                        Len(serArg.entries)))))

\* A query with the languages rust, go in this order was serialized.
C21_Witness ==
  /\ QueryCalled
  /\ serResult.kind = "returned"
  /\ \E i \in 1 .. Len(serArg.entries) :
       /\ serArg.entries[i].isArray
       /\ serArg.entries[i].value = <<RustKeyword, GoKeyword>>

RECURSIVE KeywordTokens(_, _)
\* The tokens key:str of the keywords of one field, the empty str left out.
KeywordTokens(key, keywords) ==
  IF keywords = <<>> THEN <<>>
  ELSE LET str == repoSearchKeywordToString(Head(keywords)).value
       IN (IF str = "" THEN <<>> ELSE <<key \o ":" \o str>>)
            \o KeywordTokens(key, Tail(keywords))

RECURSIVE FieldsTokens(_)
\* The tokens of the fields, field after field in the order of the entries.
FieldsTokens(entries) ==
  IF entries = <<>> THEN <<>>
  ELSE LET e == Head(entries)
       IN KeywordTokens(e.key, IF e.isArray THEN e.value ELSE <<e.value>>)
            \o FieldsTokens(Tail(entries))

\* C22: the result is the tokens of the fields in the property order of the
\* query object, one space between neighbours; a keyword that serializes to
\* the empty string adds no token and no space.
C22_TokensInFieldOrderSingleSpaced ==
  (QueryCalled /\ Dispatchable(serArg.entries)) =>
    serResult = Returned(SpaceSeparated(FieldsTokens(serArg.entries)))

\* A query in the order main builds it, whose stars keyword serializes to
\* the empty string between a language token and the created token.
C22_Witness ==
  /\ QueryCalled
  /\ Dispatchable(serArg.entries)
  /\ Len(serArg.entries) >= 3
  /\ serArg.entries[1].key = "language"
  /\ serArg.entries[1].value = <<GoKeyword>>
  /\ serArg.entries[2].key = "stars"
  /\ serArg.entries[2].value["minValue"] = JsUndefined
  /\ repoSearchKeywordToString(serArg.entries[2].value) = Returned("")
  /\ serArg.entries[3].key = "created"
  /\ repoSearchKeywordToString(serArg.entries[3].value).value # ""
  /\ serResult.kind = "returned"

C24_DepthWithinLog2Bound ==
  stack # <<>> =>
    Len(stack) - 1 <=
      (IF RootCount > GITHUB_SEARCH_MAX_PAGE_SIZE
       THEN numBisections(RootCount, GITHUB_SEARCH_MAX_PAGE_SIZE)
       ELSE 0)

\* C30: the count requests of a partitioning pass never outnumber the
\* estimate logged by the root call, 2^(ceil(log2(rootCount / cap)) + 1) + 1.
C30_CountCallsWithinEstimate ==
  estimates # <<>> =>
    /\ estimates[1].count = RootCount
    /\ Len(countLog) <= estimates[1].numRequests

\* C28: the returned leaves tile the root range: the first starts at the
\* filter's created.minValue, the last ends at its created.maxValue, and
\* each leaf ends at the instant the next one starts.
C28_LeavesTileRootRange ==
  PartitionReturned =>
    /\ partitions[1].startDate = query.created.minValue
    /\ partitions[Len(partitions)].endDate = query.created.maxValue
    /\ \A i \in 1 .. Len(partitions) - 1 :
         partitions[i].endDate = partitions[i + 1].startDate

\* Three leaves: a bisection inside a bisection.
C28_Witness ==
  /\ Len(partitions) = 3
  /\ partitions[1].endDate = partitions[2].startDate
  /\ TimeOf(partitions[1].startDate) < TimeOf(partitions[3].endDate)

\* The range of a count request.
RequestRange(request) ==
  [minValue |-> request.minValue, maxValue |-> request.maxValue]

\* C29: when L leaves are returned exactly 2 * L - 1 count requests were
\* made, each with page size 1, the first for the root; each is for a node
\* of the bisection tree (the range from the start of a leaf to the end of
\* that leaf or of a later one), and each leaf was counted.
C29_OneCountCallPerNode ==
  PartitionReturned =>
    /\ Len(countLog) = 2 * Len(partitions) - 1
    /\ RequestRange(countLog[1]) = query.created
    /\ \A k \in 1 .. Len(countLog) :
         /\ countLog[k].per_page = 1
         /\ \E i, j \in 1 .. Len(partitions) :
              /\ i <= j
              /\ countLog[k].minValue = partitions[i].startDate
              /\ countLog[k].maxValue = partitions[j].endDate
    /\ \A i \in 1 .. Len(partitions) :
         \E k \in 1 .. Len(countLog) :
           RequestRange(countLog[k]) = CreatedOf(partitions[i])

\* A tree of three leaves was counted with five requests.
C29_Witness ==
  /\ Len(partitions) = 3
  /\ Len(countLog) = 5

\* C25: fetchRepoCode called for a repository whose clone directory exists
\* runs no git clone, no removal and no cleanup and leaves the directory as
\* it is: it resolves at once, and nothing happens afterwards.
C25_ExistingCloneIsSkipped ==
  [][/\ (gitPc = "called" /\ existsSync(cloneDir)) =>
          (gitPc' = "resolved" /\ cloneDir' = cloneDir /\ gitLog' = <<>>)
     /\ (gitPc = "resolved" /\ gitLog = <<>>) =>
          (cloneDir' = cloneDir /\ gitLog' = <<>>)]_vars

\* The call for a repository downloaded before has resolved.
C25_Witness ==
  /\ gitPc = "resolved"
  /\ cloneDir = "existing"
  /\ gitLog = <<>>

\* C27: in dry-run mode main never calls fetchRepoCode and no clone
\* directory comes to exist, for any batch, while every repository of every
\* batch delivered is logged and, no maximal count being given, the stream
\* is consumed to its end.
C27_DryRunClonesNothing ==
  dryRun =>
    /\ \A i \in 1 .. Len(fetchRepoCodeCalls) : fetchRepoCodeCalls[i] = NoRepos
    /\ cloneDirs = NoRepos
    /\ mainPc \notin {"throw"}
    /\ Len(cloningLog) = (IF mainPc = "promiseAll" THEN handled + 1 ELSE handled)
    /\ \A i \in 1 .. Len(cloningLog) : cloningLog[i] = yielded[i].repos
    /\ (mainPc = "done" /\ maxRepoCount = Undefined) =>
         (outcome = "done" /\ handled = Len(partitions))

\* A dry run went through a stream of several batches with repositories.
C27_Witness ==
  /\ dryRun
  /\ mainPc = "done"
  /\ outcome = "done"
  /\ Len(cloningLog) >= 2
  /\ cloningLog[1] # NoRepos
  /\ cloningLog[2] # NoRepos

\* C26: the sort-based searchRepos returns at most maxRepoCount
\* repositories.
C26_AtMostMaxRepoCount ==
  sortPc = "returned" => Len(itemsFromAllCalls) <= maxRepoCountArg

\* C31: a stream consumed to its end has yielded one batch per leaf, in the
\* order of the partition list; the i-th batch carries the i-th leaf's
\* dates and count, and the i-th page request, the only one for that leaf,
\* asks for the leaf's date range with the leaf's count as page size.
C31_OneBatchAndOneFetchPerLeaf ==
  outcome = "done" =>
    /\ Len(yielded) = Len(partitions)
    /\ Len(fetchLog) = Len(partitions)
    /\ \A i \in 1 .. Len(partitions) :
         /\ yielded[i].startDate = partitions[i].startDate
         /\ yielded[i].endDate = partitions[i].endDate
         /\ yielded[i].countInPartition = partitions[i].count
         /\ fetchLog[i].minValue = partitions[i].startDate
         /\ fetchLog[i].maxValue = partitions[i].endDate
         /\ fetchLog[i].per_page = partitions[i].count
         /\ fetchLog[i].per_page <= GITHUB_SEARCH_MAX_PAGE_SIZE

\* A stream over three leaves or more was consumed to its end, and one of
\* its leaves holds less than a page.
C31_Witness ==
  /\ outcome = "done"
  /\ Len(partitions) >= 3
  /\ \E i \in 1 .. Len(partitions) :
       partitions[i].count \in 1 .. GITHUB_SEARCH_MAX_PAGE_SIZE - 1

RECURSIVE LeafCountsUpTo(_)
\* The counts of the first i leaves of the partition list, added up.
LeafCountsUpTo(i) ==
  IF i = 0 THEN 0 ELSE partitions[i].count + LeafCountsUpTo(i - 1)

\* C32: every batch of a stream carries the same totalCount, the sum of the
\* counts of all leaves, and its countProgress does not exceed it.
C32_TotalCountIsSumOfLeaves ==
  \A i \in 1 .. Len(yielded) :
    /\ yielded[i].totalCount = LeafCountsUpTo(Len(partitions))
    /\ yielded[i].totalCount = yielded[1].totalCount
    /\ yielded[i].countProgress <= yielded[i].totalCount

\* Two batches or more of a stream over unequal leaves were delivered.
C32_Witness ==
  /\ Len(yielded) >= 2
  /\ Len(partitions) >= 3
  /\ yielded[1].countInPartition # yielded[2].countInPartition
  /\ yielded[1].totalCount > 0

\* C33: partitioning and streaming leave the query object they were given
\* as it was, and every query sent in a count request or a page request, as
\* every query passed to a recursive call, has the keywords of that object
\* other than created.
C33_CallerQueryIsLeftAlone ==
  [][/\ query' = query
     /\ \A k \in 1 .. Len(countLog') :
          countLog'[k].others = [key \in DOMAIN query \ {"created"} |-> query[key]]
     /\ \A k \in 1 .. Len(fetchLog') :
          fetchLog'[k].others = [key \in DOMAIN query \ {"created"} |-> query[key]]
     /\ \A i \in 1 .. Len(stack') :
          DOMAIN stack'[i].query = DOMAIN query
            /\ \A key \in DOMAIN query \ {"created"} :
                 stack'[i].query[key] = query[key]]_vars

\* A query with stars and forks ranges was bisected more than once and a
\* page of one of its leaves was requested.
C33_Witness ==
  /\ "stars" \in DOMAIN query
  /\ Len(countLog) >= 5
  /\ fetchLog # <<>>
  /\ \E k \in 1 .. Len(countLog) :
       /\ countLog[k].minValue # query.created.minValue
       /\ countLog[k].maxValue # query.created.maxValue

\* C34: the estimate of requests and minutes is logged at most once in a
\* partitioning pass, and the step that logs it is the answer to the first
\* count request, the top-level call's, with a root count above the cap.
C34_EstimateOnceByRootCall ==
  [][/\ Len(estimates') <= 1
     /\ estimates' # estimates =>
          /\ Len(stack) = 1
          /\ Len(countLog) = 1
          /\ RootCount > GITHUB_SEARCH_MAX_PAGE_SIZE
          /\ estimates'[1].count = RootCount]_vars

\* The estimate was logged once although a recursive call was also answered
\* a count above the cap.
C34_Witness ==
  /\ Len(estimates) = 1
  /\ partitions # <<>>
  /\ \E k \in 2 .. Len(countLog) :
       findRepoCount([created |-> [minValue |-> countLog[k].minValue,
                                   maxValue |-> countLog[k].maxValue]])
         > GITHUB_SEARCH_MAX_PAGE_SIZE

Commands(op) == {k \in 1 .. Len(gitLog) : gitLog[k].op = op}

CleanUpCommands ==
  Commands("find -type f -delete") \cup Commands("find -type d -empty -delete")

\* C35: gitClone runs git clone at most once in each of at most
\* GIT_CLONE_RETRIES + 1 attempts, never into an existing directory; once a
\* git clone has succeeded no other attempt is made; and it rejects only
\* when the last of these attempts has failed.
C35_CloneRetriedUpToTenTimes ==
  /\ attempt <= GIT_CLONE_RETRIES + 1
  /\ \A k \in Commands("git clone") :
       /\ gitLog[k].dir = "absent"
       /\ gitLog[k].attempt \in 1 .. GIT_CLONE_RETRIES + 1
       /\ \A j \in Commands("git clone") :
            j # k => gitLog[j].attempt # gitLog[k].attempt
  /\ \A k \in CleanUpCommands :
       /\ \A j \in Commands("git clone") \cup Commands("rm") : j < k
       /\ gitLog[k].attempt = attempt
       /\ \E j \in Commands("git clone") : gitLog[j].attempt = attempt
  /\ gitPc \in {"execFindFiles", "execFindDirs"} => existsSync(cloneDir)
  /\ gitPc = "rejected" =>
       /\ attempt = GIT_CLONE_RETRIES + 1
       /\ CleanUpCommands = {}
       /\ cloneDir \notin {"cloned", "partlyCleaned", "filesDeleted", "cleaned"}

\* Every attempt ran git clone and failed, some of them after removing what
\* an earlier one had left behind, and gitClone rejected.
C35_Witness ==
  /\ gitPc = "rejected"
  /\ Cardinality(Commands("git clone")) = GIT_CLONE_RETRIES + 1
  /\ Commands("rm") # {}

\* C36: while cleanUpRepo runs, every step leaves the clone directory in
\* place and leads to the second find or to fetchRepoCode resolving; and
\* fetchRepoCode rejects only in the step in which the last attempt of
\* gitClone fails.
C36_CleanUpFailureIsNotFatal ==
  [][/\ gitPc \in {"execFindFiles", "execFindDirs"} =>
          /\ gitPc' \in {"execFindDirs", "resolved"}
          /\ existsSync(cloneDir')
     /\ (gitPc' = "rejected" /\ gitPc # "rejected") =>
          /\ gitPc \in {"rmAsync", "execGitClone"}
          /\ attempt = GIT_CLONE_RETRIES + 1
          /\ \A k \in 1 .. Len(gitLog) :
               gitLog[k].op \in {"rm", "git clone"}]_vars

\* fetchRepoCode resolved after a find of cleanUpRepo failed: the clone is
\* there with non-code files or empty directories left in it.
C36_Witness ==
  /\ gitPc = "resolved"
  /\ cloneDir \in {"cloned", "partlyCleaned", "filesDeleted"}
  /\ Commands("git clone") # {}

\* C37: when --max-repo-count is given, the first batch main is done with
\* whose countProgress is at least the maximum is the last one requested:
\* no page is requested for a later partition, and the batches before it
\* had a countProgress below the maximum.
C37_StopsAtMaxRepoCount ==
  maxRepoCount # Undefined =>
    \A i \in 1 .. handled :
      yielded[i].countProgress >= maxRepoCount[1] =>
        /\ Len(fetchLog) = i
        /\ \A j \in 1 .. i - 1 : yielded[j].countProgress < maxRepoCount[1]

NoDuplicateIds(items) == Cardinality(Ids(items)) = Len(items)

\* C38: no id occurs twice in the list the sort-based searchRepos returns,
\* nor in the lists it and its helper build on the way.
C38_ReturnedIdsAreDistinct ==
  /\ NoDuplicateIds(itemsFromAllPages)
  /\ NoDuplicateIds(itemsFromAllCalls)

\* searchRepos returned after two calls of the helper, the pages of which
\* overlapped as the ranking moved, and the second call found again every
\* repository of the first.
C38_Witness ==
  /\ sortPc = "returned"
  /\ call = 2
  /\ drift = MaxDrift
  /\ Len(itemsFromAllPages) > GITHUB_SEARCH_MAX_PAGE_SIZE
  /\ Len(itemsFromAllCalls) = Len(itemsFromAllPages)

====
